---- MODULE Spec2Model ----
(***************************************************************************)
(* Run validation and lifecycle engine of the trackmaster bot:             *)
(*   - the run repository (trackmaster/core/database.py), with the         *)
(*     per-week sequence allocator inside create_pending_run;              *)
(*   - the period key (trackmaster/core/utils.py);                         *)
(*   - name validation (trackmaster/core/validation.py);                   *)
(*   - the lifecycle controller (trackmaster/ui/views.py, ui/modals.py).   *)
(*                                                                         *)
(* Storage is PostgreSQL (core/db.py:18) at its default isolation level:   *)
(* a transaction's writes are private until COMMIT, a row written by an    *)
(* open transaction is locked, and a statement that needs a locked row     *)
(* waits for the holder to end and then works on the committed row.        *)
(***************************************************************************)
EXTENDS Integers, Sequences, FiniteSets, TLC

VARIABLES
    weekly_sequences,   \* committed weekly_sequences table: week_id -> current_val,
                        \* defined on the weeks that have a row
    team_trial_runs,    \* committed team_trial_runs table: sequence of header rows
    uma_scores,         \* committed uma_scores table: sequence of score rows
    sessions,           \* create_pending_run calls, in the order they begin: call -> its
                        \* database session (position, private writes, outcome)
    row_lock,           \* weekly_sequences row locks: week_id -> the sessions holding it
    thread_runs,        \* whether a repository method handed to asyncio.to_thread runs
    views,              \* the ValidationView of each submission, in creation order
    tasks,              \* the button interactions, in arrival order
    call                \* the last direct call of a repository method or of a
                        \* function of core/: its arguments and what it returned

vars == <<weekly_sequences, team_trial_runs, uma_scores, sessions, row_lock,
          thread_runs, views, tasks, call>>
dbVars == <<weekly_sequences, team_trial_runs, uma_scores>>
allocVars == <<sessions, row_lock>>
uiVars == <<thread_runs, views, tasks>>
repoVars == <<call>>

-----------------------------------------------------------------------------
(* Bounds of the model *)

MaxCalls == 3       \* create_pending_run calls per behaviour, each in its own session
MaxRuns == 1        \* submissions that reach create_pending_run per behaviour
MaxClicks == 2      \* button interactions per behaviour
MaxStored == 2      \* runs created by direct repository calls per behaviour

Sessions == 1..MaxCalls
ViewIds == 1..MaxRuns
TaskIds == 1..MaxClicks

-----------------------------------------------------------------------------
(* Period key: trackmaster/core/utils.py *)

GAME_RESET_DAY_OF_WEEK == 0
GAME_RESET_HOUR_UTC == 9

\* A timestamp is [day, hour]; day counts days from Monday 2024-12-23.
Timestamps == {[day |-> 7, hour |-> 8], [day |-> 7, hour |-> 9], [day |-> 10, hour |-> 8]}

\* datetime.weekday(): Monday is 0.
weekday(day) == day % 7

\* The calendar around the epoch: 2024-12-23 is day 357 (from 0) of 2024,
\* a year of 366 days, so day 9 is 2025-01-01.
Year(day) == IF day <= 8 THEN 2024 ELSE 2025
YDay(day) == IF day <= 8 THEN 357 + day ELSE day - 9

\* date.strftime("%Y-W%W"): the year and the Monday-based week of the year.
strftime(day) == <<Year(day), (YDay(day) + 7 - weekday(day)) \div 7>>

get_current_season_id_calendar_week(timestamp) == strftime(timestamp.day)
get_current_season_id_same_day(timestamp) ==
    strftime(timestamp.day - ((weekday(timestamp.day) - GAME_RESET_DAY_OF_WEEK) % 7))
get_current_season_id(timestamp) ==
    LET days_since_reset == (weekday(timestamp.day) - GAME_RESET_DAY_OF_WEEK) % 7
        most_recent_reset_date ==
            IF days_since_reset = 0 /\ timestamp.hour < GAME_RESET_HOUR_UTC
            THEN timestamp.day - 7
            ELSE timestamp.day - days_since_reset
    IN  strftime(most_recent_reset_date)

Weeks == {get_current_season_id(ts) : ts \in Timestamps}

-----------------------------------------------------------------------------
(* Inputs of a submission *)

\* What create_pending_run is called with: the submitter, the roster and the
\* corrected score list.
Submissions ==
    {[user_id |-> 1, roster_id |-> 1,
      scores |-> <<[name |-> "Maruzensky", team |-> "Mile", score |-> 100]>>],
     [user_id |-> 2, roster_id |-> 2,
      scores |-> <<[name |-> "Special Week", team |-> "Sprint", score |-> 200],
                   [name |-> "Maruzensky", team |-> "Mile", score |-> 300]>>]}

-----------------------------------------------------------------------------
(* Repository statements: trackmaster/core/database.py *)

\* Decimal digits of n, most significant first.
RECURSIVE Digits(_)
Digits(n) == IF n < 10 THEN <<n>> ELSE Append(Digits(n \div 10), n % 10)

\* The format specification 03d: at least three digits, zero-padded.
Format03d(n) ==
    LET d == Digits(n)
    IN  IF Len(d) >= 3 THEN d ELSE [i \in 1..(3 - Len(d)) |-> 0] \o d

\* f"{week_str}-EVT-{next_id:03d}"
EventIdYearOnly(week_str, next_id) == <<<<week_str[1], 0>>, "EVT", Format03d(next_id)>>
EventId(week_str, next_id) == <<week_str, "EVT", Format03d(next_id)>>

\* INSERT INTO team_trial_runs ... VALUES (..., 'pending_validation')
InsertRun(runs, event_id, user_id, roster_id, week_str) ==
    Append(runs, [event_id |-> event_id, discord_user_id |-> user_id,
                  roster_id |-> roster_id, run_week |-> week_str,
                  status |-> "pending_validation"])

\* INSERT INTO uma_scores ..., one row per score of the list
InsertScores(rows, event_id, scores) ==
    rows \o [i \in 1..Len(scores) |->
                [event_id |-> event_id, uma_name |-> scores[i].name,
                 team |-> scores[i].team, score |-> scores[i].score]]

\* A statement on the week's counter row proceeds when no other open
\* transaction has written the row.
RowLockIgnored(week_str, s) == TRUE
RowLockFree(week_str, s) == row_lock[week_str] \subseteq {s}

Idle == [pc |-> "idle"]

\* async with db_manager.session(): now and week_str are taken first.
BeginCreate(s) ==
    /\ sessions[s].pc = "idle"
    /\ IF s = 1 THEN TRUE ELSE sessions[s - 1].pc # "idle"
    /\ \E now \in Timestamps, sub \in Submissions :
          sessions' = [sessions EXCEPT ![s] =
              [pc |-> "begun", week_str |-> get_current_season_id(now),
               user_id |-> sub.user_id, roster_id |-> sub.roster_id, scores |-> sub.scores,
               wrote |-> FALSE, current_val |-> 0, next_id |-> 0,
               failed_at |-> "none"]]
    /\ UNCHANGED <<weekly_sequences, team_trial_runs, uma_scores, row_lock, uiVars, repoVars>>

\* INSERT INTO weekly_sequences (week_id, current_val) VALUES (:week, 0)
\* ON CONFLICT (week_id) DO NOTHING
UpsertWeek(s) ==
    LET w == sessions[s].week_str IN
    /\ sessions[s].pc = "begun"
    /\ RowLockFree(w, s)
    /\ IF w \notin DOMAIN weekly_sequences
       THEN /\ sessions' = [sessions EXCEPT ![s].pc = "upserted",
                                            ![s].wrote = TRUE,
                                            ![s].current_val = 0]
            /\ row_lock' = [row_lock EXCEPT ![w] = @ \cup {s}]
       ELSE /\ sessions' = [sessions EXCEPT ![s].pc = "upserted"]
            /\ UNCHANGED row_lock
    /\ UNCHANGED <<weekly_sequences, team_trial_runs, uma_scores, uiVars, repoVars>>

\* UPDATE weekly_sequences SET current_val = current_val + 1
\* WHERE week_id = :week RETURNING current_val; next_id = result.scalar()
IncrementWeek(s) ==
    LET w == sessions[s].week_str
        row == IF sessions[s].wrote THEN sessions[s].current_val
               ELSE weekly_sequences[w]
    IN
    /\ sessions[s].pc = "upserted"
    /\ RowLockFree(w, s)
    /\ sessions[s].wrote \/ w \in DOMAIN weekly_sequences
    /\ sessions' = [sessions EXCEPT ![s].pc = "incremented",
                                    ![s].wrote = TRUE,
                                    ![s].current_val = row + 1,
                                    ![s].next_id = row + 1]
    /\ row_lock' = [row_lock EXCEPT ![w] = @ \cup {s}]
    /\ UNCHANGED <<weekly_sequences, team_trial_runs, uma_scores, uiVars, repoVars>>

\* INSERT INTO team_trial_runs, private to the transaction until commit.
InsertRunStmt(s) ==
    /\ sessions[s].pc = "incremented"
    /\ sessions' = [sessions EXCEPT ![s].pc = "run_inserted"]
    /\ UNCHANGED <<weekly_sequences, team_trial_runs, uma_scores, row_lock, uiVars, repoVars>>

\* INSERT INTO uma_scores, private to the transaction until commit.
InsertScoresStmt(s) ==
    /\ sessions[s].pc = "run_inserted"
    /\ sessions' = [sessions EXCEPT ![s].pc = "scores_inserted"]
    /\ UNCHANGED <<weekly_sequences, team_trial_runs, uma_scores, row_lock, uiVars, repoVars>>

\* The committed tables as a record.
Tables == [weekly_sequences |-> weekly_sequences,
           team_trial_runs |-> team_trial_runs,
           uma_scores |-> uma_scores]

\* The table with the row of week_str set to current_val.
PutCounterEveryWeek(table, week_str, current_val) ==
    [w \in DOMAIN table \cup {week_str} |-> current_val]
PutCounter(table, week_str, current_val) ==
    [w \in DOMAIN table \cup {week_str} |->
        IF w = week_str THEN current_val ELSE table[w]]

\* The tables after the transaction's writes are applied.
CommitWrites(s) ==
    LET c == sessions[s]
        event_id == EventId(c.week_str, c.next_id)
    IN  [weekly_sequences |-> PutCounter(weekly_sequences, c.week_str, c.current_val),
         team_trial_runs |-> InsertRun(team_trial_runs, event_id, c.user_id, c.roster_id, c.week_str),
         uma_scores |-> InsertScores(uma_scores, event_id, c.scores)]

\* await session.commit(); return event_id
CommitCreate(s) ==
    LET c == sessions[s]
        after == CommitWrites(s)
    IN
    /\ c.pc = "scores_inserted"
    /\ weekly_sequences' = after.weekly_sequences
    /\ team_trial_runs' = after.team_trial_runs
    /\ uma_scores' = after.uma_scores
    /\ row_lock' = [w \in Weeks |-> row_lock[w] \ {s}]
    /\ sessions' = [sessions EXCEPT ![s].pc = "returned"]
    /\ UNCHANGED <<uiVars, repoVars>>

\* The tables after await session.rollback(): the private writes are dropped.
RollbackKeepsCounter(s) ==
    LET c == sessions[s]
    IN  [Tables EXCEPT !.weekly_sequences =
            IF c.wrote THEN PutCounter(@, c.week_str, c.current_val) ELSE @]
RollbackAutocommit(s) ==
    LET c == sessions[s]
        event_id == EventId(c.week_str, c.next_id)
    IN  IF c.pc \in {"run_inserted", "scores_inserted"}
        THEN [Tables EXCEPT !.team_trial_runs =
                 InsertRun(@, event_id, c.user_id, c.roster_id, c.week_str)]
        ELSE Tables
RollbackIncrementCommitted(s) ==
    LET c == sessions[s]
        counted == IF c.week_str \in DOMAIN weekly_sequences
                   THEN weekly_sequences[c.week_str] ELSE 0
    IN  IF c.pc \in {"incremented", "run_inserted", "scores_inserted"}
        THEN [Tables EXCEPT !.weekly_sequences = PutCounter(@, c.week_str, counted + 1)]
        ELSE Tables
RollbackWrites(s) == Tables

\* except Exception: a statement or the commit fails; rollback; raise
FailCreate(s) ==
    LET c == sessions[s]
        after == RollbackWrites(s)
    IN
    /\ c.pc \in {"begun", "upserted", "incremented", "run_inserted", "scores_inserted"}
    /\ weekly_sequences' = after.weekly_sequences
    /\ team_trial_runs' = after.team_trial_runs
    /\ uma_scores' = after.uma_scores
    /\ row_lock' = [w \in Weeks |-> row_lock[w] \ {s}]
    /\ sessions' = [sessions EXCEPT ![s].pc = "raised", ![s].failed_at = c.pc]
    /\ UNCHANGED <<uiVars, repoVars>>

-----------------------------------------------------------------------------
(* Reading the committed tables *)

Returned == {s \in Sessions : sessions[s].pc = "returned"}
ReturnedIn(w) == {s \in Returned : sessions[s].week_str = w}
CounterOf(w) == IF w \in DOMAIN weekly_sequences THEN weekly_sequences[w] ELSE 0

\* The score rows of a run, in table order.
ScoreRowsOf(event_id) == SelectSeq(uma_scores, LAMBDA r : r.event_id = event_id)
HeadersOf(event_id) == SelectSeq(team_trial_runs, LAMBDA r : r.event_id = event_id)

-----------------------------------------------------------------------------
(* Concurrent create_pending_run calls *)

InitStorage ==
    /\ weekly_sequences = <<>>
    /\ team_trial_runs = <<>>
    /\ uma_scores = <<>>
    /\ sessions = [s \in Sessions |-> Idle]
    /\ row_lock = [w \in Weeks |-> {}]

\* An optional argument is the empty tuple when it is not given, and the
\* one-element tuple of its value (a week: the week itself) when it is.
None == <<>>
NoFilter == [user_id |-> None, roster_id |-> None, week |-> None]

\* No repository method has been called directly.
NoCall ==
    [op |-> "none", event_id |-> None, arg |-> None, filter |-> NoFilter,
     storage_ok |-> TRUE, result |-> "none", rowcount |-> 0, rows |-> {}]

InitAlloc ==
    /\ InitStorage
    /\ thread_runs = TRUE
    /\ views = <<>>
    /\ tasks = <<>>
    /\ call = NoCall

NextAlloc ==
    \E s \in Sessions :
        \/ BeginCreate(s)
        \/ UpsertWeek(s)
        \/ IncrementWeek(s)
        \/ InsertRunStmt(s)
        \/ InsertScoresStmt(s)
        \/ CommitCreate(s)
        \/ FailCreate(s)

SpecAlloc == InitAlloc /\ [][NextAlloc]_vars

-----------------------------------------------------------------------------
(* Repository calls of the lifecycle controller *)

\* ON DELETE CASCADE of uma_scores.event_id: the score rows go with the header.
DeleteCascade(rows, event_id) == SelectSeq(rows, LAMBDA r : r.event_id # event_id)

\* set_run_status that returns False when its statement matched no header.
set_run_status_strict(event_id, status, storage_ok) ==
    LET rowcount == Len(HeadersOf(event_id)) IN
    IF ~storage_ok \/ rowcount = 0
    THEN [tables |-> Tables, result |-> "False", rowcount |-> 0]
    ELSE [tables |-> [Tables EXCEPT
                        !.team_trial_runs =
                            IF status = "rejected"
                            THEN SelectSeq(@, LAMBDA r : r.event_id # event_id)
                            ELSE [i \in 1..Len(@) |->
                                    IF @[i].event_id = event_id
                                    THEN [@[i] EXCEPT !.status = status] ELSE @[i]],
                        !.uma_scores =
                            IF status = "rejected" THEN DeleteCascade(@, event_id) ELSE @],
          result |-> "True", rowcount |-> rowcount]

\* set_run_status whose statement has no WHERE event_id = :eid.
set_run_status_every_run(event_id, status, storage_ok) ==
    IF ~storage_ok
    THEN [tables |-> Tables, result |-> "False", rowcount |-> 0]
    ELSE IF status = "rejected"
    THEN [tables |-> [Tables EXCEPT !.team_trial_runs = <<>>, !.uma_scores = <<>>],
          result |-> "True", rowcount |-> Len(team_trial_runs)]
    ELSE [tables |-> [Tables EXCEPT
                        !.team_trial_runs =
                            [i \in 1..Len(@) |-> [@[i] EXCEPT !.status = status]]],
          result |-> "True", rowcount |-> Len(team_trial_runs)]

\* DatabaseManager.set_run_status in one session: the statement and the commit,
\* or, when storage fails, the rollback. rowcount is the number of header rows
\* the statement matched; the method does not read it.
set_run_status(event_id, status, storage_ok) ==
    LET rowcount == Len(HeadersOf(event_id)) IN
    IF ~storage_ok
    THEN [tables |-> Tables, result |-> "False", rowcount |-> 0]
    ELSE IF status = "rejected"
    THEN [tables |-> [Tables EXCEPT
                        !.team_trial_runs = SelectSeq(@, LAMBDA r : r.event_id # event_id),
                        !.uma_scores = DeleteCascade(@, event_id)],
          result |-> "True", rowcount |-> rowcount]
    ELSE [tables |-> [Tables EXCEPT
                        !.team_trial_runs =
                            [i \in 1..Len(@) |->
                                IF @[i].event_id = event_id
                                THEN [@[i] EXCEPT !.status = status] ELSE @[i]]],
          result |-> "True", rowcount |-> rowcount]

\* return result.rowcount > 0
RowcountIgnored(rowcount) == TRUE
RowcountPositive(rowcount) == rowcount > 0

\* The score rows an UPDATE ... WHERE event_id = :eid AND uma_name = :oname
\* works on.
MatchesScore(row, event_id, original_name) ==
    row.event_id = event_id /\ row.uma_name = original_name

\* DatabaseManager.update_single_score in one session: the UPDATE and the
\* commit, or, when storage fails, the rollback. The epithet column is left
\* out of the score rows of this model.
update_single_score(event_id, original_name, new_name, new_team, new_score, storage_ok) ==
    LET rowcount == Len(SelectSeq(uma_scores,
                                  LAMBDA r : MatchesScore(r, event_id, original_name)))
    IN  IF ~storage_ok
        THEN [tables |-> Tables, result |-> "False", rowcount |-> 0]
        ELSE [tables |-> [Tables EXCEPT
                            !.uma_scores =
                                [i \in 1..Len(@) |->
                                    IF MatchesScore(@[i], event_id, original_name)
                                    THEN [@[i] EXCEPT !.uma_name = new_name,
                                                      !.team = new_team,
                                                      !.score = new_score]
                                    ELSE @[i]]],
              result |-> IF RowcountPositive(rowcount) THEN "True" ELSE "False",
              rowcount |-> rowcount]

\* DatabaseManager.create_pending_run run alone, from its first statement to
\* its commit (or, when storage fails, its rollback and raise).
create_pending_run(now, sub, storage_ok) ==
    LET week_str == get_current_season_id(now)
        next_id == CounterOf(week_str) + 1
        event_id == EventId(week_str, next_id)
    IN  IF ~storage_ok
        THEN [tables |-> Tables, result |-> "raised", event_id |-> event_id]
        ELSE [tables |->
                [weekly_sequences |-> PutCounter(weekly_sequences, week_str, next_id),
                 team_trial_runs |-> InsertRun(team_trial_runs, event_id, sub.user_id,
                                               sub.roster_id, week_str),
                 uma_scores |-> InsertScores(uma_scores, event_id, sub.scores)],
              result |-> "returned", event_id |-> event_id]

\* What an un-awaited coroutine object looks like where an event id is expected.
CoroutineObject == <<<<0, 0>>, "coroutine object", <<>>>>

\* await asyncio.to_thread(method, ...): the worker thread calls method(...) and
\* the caller gets what that call returns. The repository methods are declared
\* async def: called without await they only build a coroutine object, which is
\* truthy and which nothing awaits, so no statement runs. With a manager whose
\* methods block (the close_all of bot.py and every to_thread call site are
\* written for one) the call runs the method. thread_runs says which.
to_thread(method_call) ==
    IF thread_runs THEN method_call
    ELSE [tables |-> Tables, result |-> "coroutine", rowcount |-> 0,
          event_id |-> CoroutineObject]

\* if success: (any object but False is true)
Truthy(result) == result # "False"

-----------------------------------------------------------------------------
(* Lifecycle controller: trackmaster/ui/views.py, cogs/submission.py *)

Users == {1, 2}

\* When the submissions of the lifecycle runs arrive, and what they hold: the
\* submitter is user 1, so that user 2 is somebody else for every run.
SubmitTimes == {[day |-> 7, hour |-> 9]}
Submitted == {sub \in Submissions : sub.user_id = 1}
Buttons == {"confirm_run", "edit_run", "cancel_run"}

View(event_id, user_id) ==
    [event_id |-> event_id, original_user_id |-> user_id,
     has_been_actioned |-> FALSE,
     stopped |-> FALSE,         \* View.stop() was called, or the timeout fired
     timer |-> "armed"]         \* the timeout=300 timer and the on_timeout task

\* A confirm or cancel that passed interaction_check and entered its callback.
Accepted(t) ==
    /\ tasks[t].button \in {"confirm_run", "cancel_run"}
    /\ tasks[t].outcome \notin {"no_response", "unauthorized", "already_processed"}

\* The status the tables hold for a run; a run without header is deleted.
StatusOf(event_id) ==
    IF HeadersOf(event_id) = <<>> THEN "deleted" ELSE HeadersOf(event_id)[1].status

\* A terminal transition of the view has been accepted.
Decided(v) ==
    \/ views[v].timer # "armed"
    \/ \E t \in 1..Len(tasks) : tasks[t].view = v /\ Accepted(t)

\* submit_trial from the correction on: create_pending_run in a worker thread,
\* then the ValidationView of the run. An exception ends the command with the
\* "unexpected error" message and no view.
SubmitTrial ==
    /\ Len(views) < MaxRuns
    /\ \E now \in SubmitTimes, sub \in Submitted, storage_ok \in BOOLEAN :
          LET r == to_thread(create_pending_run(now, sub, storage_ok)) IN
          /\ weekly_sequences' = r.tables.weekly_sequences
          /\ team_trial_runs' = r.tables.team_trial_runs
          /\ uma_scores' = r.tables.uma_scores
          /\ views' = IF r.result = "raised" THEN views
                      ELSE Append(views, View(r.event_id, sub.user_id))
    /\ UNCHANGED <<allocVars, repoVars, thread_runs, tasks>>

\* interaction_check: the message it answers with, or none when it returns
\* True. The author check comes first.
interaction_check_flag_first(view, user, button) ==
    IF view.has_been_actioned /\ button # "edit_run" THEN "already_processed"
    ELSE IF user # view.original_user_id THEN "unauthorized"
    ELSE "none"
interaction_check(view, user, button) ==
    IF user # view.original_user_id THEN "unauthorized"
    ELSE IF view.has_been_actioned /\ button # "edit_run" THEN "already_processed"
    ELSE "none"

\* A button click reaches the view: a stopped view no longer dispatches; else
\* interaction_check, and the callback up to its first await (the defer, or
\* the modal of the edit button).
Click(v, user, button) ==
    LET view == IF v \in 1..Len(views) THEN views[v] ELSE View(CoroutineObject, 1)
        outcome == IF view.stopped THEN "no_response"
                   ELSE interaction_check(view, user, button)
        pc == IF outcome # "none" THEN "done"
              ELSE IF button = "edit_run" THEN "modal" ELSE "deferring"
    IN
    /\ v \in 1..Len(views)
    /\ Len(tasks) < MaxClicks
    /\ tasks' = Append(tasks, [view |-> v, user |-> user, button |-> button, pc |-> pc,
                               outcome |-> outcome, late |-> Decided(v),
                               success |-> "none", rowcount |-> 0])
    /\ UNCHANGED <<dbVars, allocVars, repoVars, thread_runs, views>>

\* disable_all_buttons up to its await: has_been_actioned = True, the buttons
\* disabled, the message edit sent.
DisableAllButtons(t) ==
    /\ t \in 1..Len(tasks)
    /\ tasks[t].pc = "deferring"
    /\ views' = [views EXCEPT ![tasks[t].view].has_been_actioned = TRUE]
    /\ tasks' = [tasks EXCEPT ![t].pc = "editing"]
    /\ UNCHANGED <<dbVars, allocVars, repoVars, thread_runs>>

\* The message edit returns: self.stop(), and set_run_status is handed to a
\* worker thread.
StopView(t) ==
    /\ t \in 1..Len(tasks)
    /\ tasks[t].pc = "editing"
    /\ views' = [views EXCEPT ![tasks[t].view].stopped = TRUE]
    /\ tasks' = [tasks EXCEPT ![t].pc = "saving"]
    /\ UNCHANGED <<dbVars, allocVars, repoVars, thread_runs>>

\* The worker thread's call of set_run_status for a confirm or a cancel.
ThreadSetRunStatus(t) ==
    /\ t \in 1..Len(tasks)
    /\ tasks[t].pc = "saving"
    /\ \E storage_ok \in BOOLEAN :
          LET status == IF tasks[t].button = "confirm_run" THEN "approved" ELSE "rejected"
              r == to_thread(set_run_status(views[tasks[t].view].event_id, status, storage_ok))
          IN  /\ weekly_sequences' = r.tables.weekly_sequences
              /\ team_trial_runs' = r.tables.team_trial_runs
              /\ uma_scores' = r.tables.uma_scores
              /\ tasks' = [tasks EXCEPT ![t].pc = "feedback", ![t].success = r.result,
                                        ![t].rowcount = r.rowcount]
    /\ UNCHANGED <<allocVars, repoVars, thread_runs, views>>

\* if success: ... else: ... of confirm_button and cancel_button
Feedback(t) ==
    /\ t \in 1..Len(tasks)
    /\ tasks[t].pc = "feedback"
    /\ tasks' = [tasks EXCEPT ![t].pc = "done",
                              ![t].outcome =
                                  IF ~Truthy(tasks[t].success) THEN "error"
                                  ELSE IF tasks[t].button = "confirm_run" THEN "approved"
                                  ELSE "cancelled"]
    /\ UNCHANGED <<dbVars, allocVars, repoVars, thread_runs, views>>

\* What the edit form can be filled with.
EditForms ==
    {[original_name |-> n, new_name |-> "Oguri Cap", new_team |-> "Dirt", new_score |-> 150]
        : n \in {"Maruzensky", "Oguri Cap"}}

\* on_submit with a call that binds: update_single_score runs in the worker
\* thread and its result is reported.
ModalSubmitApplies(t) ==
    /\ t \in 1..Len(tasks)
    /\ tasks[t].pc = "modal"
    /\ \E form \in EditForms, storage_ok \in BOOLEAN :
          LET r == to_thread(update_single_score(views[tasks[t].view].event_id,
                                                 form.original_name, form.new_name,
                                                 form.new_team, form.new_score, storage_ok))
          IN  /\ weekly_sequences' = r.tables.weekly_sequences
              /\ team_trial_runs' = r.tables.team_trial_runs
              /\ uma_scores' = r.tables.uma_scores
              /\ tasks' = [tasks EXCEPT ![t].pc = "done",
                                        ![t].outcome = IF Truthy(r.result) THEN "edit_applied"
                                                       ELSE "edit_failed"]
    /\ UNCHANGED <<allocVars, repoVars, thread_runs, views>>

\* on_submit that ends the view as the confirm and cancel callbacks do.
ModalSubmitStops(t) ==
    /\ t \in 1..Len(tasks)
    /\ tasks[t].pc = "modal"
    /\ views' = [views EXCEPT ![tasks[t].view].has_been_actioned = TRUE,
                              ![tasks[t].view].stopped = TRUE]
    /\ tasks' = [tasks EXCEPT ![t].pc = "done", ![t].outcome = "raised"]
    /\ UNCHANGED <<dbVars, allocVars, repoVars, thread_runs>>

\* ScoreEditModal.on_submit: update_single_score is called without its
\* new_epithet parameter, so the call raises TypeError before any statement.
ModalSubmit(t) ==
    /\ t \in 1..Len(tasks)
    /\ tasks[t].pc = "modal"
    /\ tasks' = [tasks EXCEPT ![t].pc = "done", ![t].outcome = "raised"]
    /\ UNCHANGED <<dbVars, allocVars, repoVars, thread_runs, views>>

\* The view's timeout passes with the view not stopped: the view stops and
\* on_timeout is scheduled as a task.
TimeoutFires(v) ==
    /\ v \in 1..Len(views)
    /\ views[v].timer = "armed"
    /\ ~views[v].stopped
    /\ views' = [views EXCEPT ![v].stopped = TRUE, ![v].timer = "scheduled"]
    /\ UNCHANGED <<dbVars, allocVars, repoVars, thread_runs, tasks>>

\* on_timeout: if not self.has_been_actioned, set_run_status(rejected) is
\* handed to a worker thread.
OnTimeout(v) ==
    /\ v \in 1..Len(views)
    /\ views[v].timer = "scheduled"
    /\ views' = [views EXCEPT ![v].timer =
                    IF ~views[v].has_been_actioned THEN "saving" ELSE "skipped"]
    /\ UNCHANGED <<dbVars, allocVars, repoVars, thread_runs, tasks>>

\* The worker thread's call of set_run_status for the timeout; its result is
\* not read.
ThreadTimeoutReject(v) ==
    /\ v \in 1..Len(views)
    /\ views[v].timer = "saving"
    /\ \E storage_ok \in BOOLEAN :
          LET r == to_thread(set_run_status(views[v].event_id, "rejected", storage_ok))
          IN  /\ weekly_sequences' = r.tables.weekly_sequences
              /\ team_trial_runs' = r.tables.team_trial_runs
              /\ uma_scores' = r.tables.uma_scores
    /\ views' = [views EXCEPT ![v].timer = "rejected"]
    /\ UNCHANGED <<allocVars, repoVars, thread_runs, tasks>>

Init ==
    /\ InitStorage
    /\ thread_runs \in BOOLEAN
    /\ views = <<>>
    /\ tasks = <<>>
    /\ call = NoCall

Next ==
    \/ SubmitTrial
    \/ \E v \in ViewIds, user \in Users, button \in Buttons : Click(v, user, button)
    \/ \E t \in TaskIds :
          \/ DisableAllButtons(t)
          \/ StopView(t)
          \/ ThreadSetRunStatus(t)
          \/ Feedback(t)
          \/ ModalSubmit(t)
    \/ \E v \in ViewIds :
          \/ TimeoutFires(v)
          \/ OnTimeout(v)
          \/ ThreadTimeoutReject(v)

Spec == Init /\ [][Next]_vars

\* The scheduling the lifecycle controller runs under. The event loop runs a
\* callback that is ready to go on until it ends; the timer of a view that
\* is not stopped fires, and its on_timeout task runs to its end; and a
\* write to storage that is tried again and again succeeds at some time.
TaskRuns(t) ==
    \/ DisableAllButtons(t)
    \/ StopView(t)
    \/ ThreadSetRunStatus(t)
    \/ Feedback(t)
    \/ ModalSubmit(t)
TimerRuns(v) ==
    \/ TimeoutFires(v)
    \/ OnTimeout(v)
    \/ ThreadTimeoutReject(v)
Stored(event_id) == StatusOf(event_id)' # "pending_validation"
Fairness ==
    /\ \A t \in TaskIds : WF_vars(TaskRuns(t))
    /\ \A v \in ViewIds : WF_vars(TimerRuns(v))
    /\ \A t \in TaskIds :
          SF_vars(ThreadSetRunStatus(t) /\ Stored(views[tasks[t].view].event_id))
    /\ \A v \in ViewIds :
          SF_vars(ThreadTimeoutReject(v) /\ Stored(views[v].event_id))

SpecLive == Init /\ [][Next]_vars /\ Fairness

-----------------------------------------------------------------------------
(* The repository methods called one after the other: core/database.py *)

\* When the runs of the direct calls are created: the hour before and the
\* hour of a weekly reset.
RepoTimes == {[day |-> 7, hour |-> 8], [day |-> 7, hour |-> 9]}

\* What the runs of the direct calls are created with: a submission of user
\* 2, and one of user 1 that holds two score rows of one name.
RepoSubmissions ==
    {sub \in Submissions : sub.user_id = 2} \cup
    {[user_id |-> 1, roster_id |-> 2,
      scores |-> <<[name |-> "Maruzensky", team |-> "Mile", score |-> 100],
                   [name |-> "Maruzensky", team |-> "Sprint", score |-> 200]>>]}

\* The sequence numbers allocated so far, over all weeks.
RECURSIVE Allocated(_)
Allocated(weeks) ==
    IF weeks = {} THEN 0
    ELSE LET w == CHOOSE x \in weeks : TRUE
         IN  CounterOf(w) + Allocated(weeks \ {w})

\* The event ids handed out so far, stored or deleted.
KnownIds == UNION {{EventId(w, n) : n \in 1..CounterOf(w)} : w \in Weeks}

\* The user_id, roster_id and week arguments of the aggregate queries.
Filters ==
    {NoFilter,
     [NoFilter EXCEPT !.user_id = <<1>>],
     [NoFilter EXCEPT !.roster_id = <<2>>, !.week = get_current_season_id([day |-> 7, hour |-> 9])]}

\* where_clauses joined with AND: r.status = 'approved' and one clause for
\* each argument that is given.
MatchesFilter(r, f) ==
    /\ f.user_id # None => r.discord_user_id = f.user_id[1]
    /\ f.roster_id # None => r.roster_id = f.roster_id[1]
    /\ f.week # None => r.run_week = f.week
WhereClausesNoStatus(r, f) == MatchesFilter(r, f)
WhereClauses(r, f) == r.status = "approved" /\ MatchesFilter(r, f)

\* FROM uma_scores s JOIN team_trial_runs r ON s.event_id = r.event_id WHERE ...:
\* the pairs (score row, header row) by their positions in the tables.
Joined(f) ==
    {p \in (1..Len(uma_scores)) \X (1..Len(team_trial_runs)) :
        /\ uma_scores[p[1]].event_id = team_trial_runs[p[2]].event_id
        /\ WhereClauses(team_trial_runs[p[2]], f)}

\* SUM(s.score) and MAX(s.score) over joined pairs.
RECURSIVE SumScore(_)
SumScore(pairs) ==
    IF pairs = {} THEN 0
    ELSE LET p == CHOOSE x \in pairs : TRUE
         IN  uma_scores[p[1]].score + SumScore(pairs \ {p})
MaxScore(pairs) ==
    CHOOSE m \in {uma_scores[p[1]].score : p \in pairs} :
        \A p \in pairs : uma_scores[p[1]].score <= m

\* get_team_summary_data up to df_team_scores: the rows of
\* SELECT s.event_id, s.team, SUM(s.score) ... GROUP BY s.event_id, s.team.
get_team_summary_data(f) ==
    {[event_id |-> uma_scores[p[1]].event_id, team |-> uma_scores[p[1]].team,
      team_total_score |->
          SumScore({q \in Joined(f) :
                      /\ uma_scores[q[1]].event_id = uma_scores[p[1]].event_id
                      /\ uma_scores[q[1]].team = uma_scores[p[1]].team})]
        : p \in Joined(f)}

\* get_leaderboard_data: the rows of SELECT s.uma_name, s.team, MAX(s.score) ...
\* GROUP BY s.uma_name, s.epithet, s.team (the averages, the percentile and
\* the trainer name are left out, as is the epithet column).
get_leaderboard_data(f) ==
    {[uma_name |-> uma_scores[p[1]].uma_name, team |-> uma_scores[p[1]].team,
      max_score |->
          MaxScore({q \in Joined(f) :
                      /\ uma_scores[q[1]].uma_name = uma_scores[p[1]].uma_name
                      /\ uma_scores[q[1]].team = uma_scores[p[1]].team})]
        : p \in Joined(f)}

\* The record of a call.
Called(op, event_id, arg, filter, storage_ok, result, rowcount, rows) ==
    [op |-> op, event_id |-> event_id, arg |-> arg, filter |-> filter,
     storage_ok |-> storage_ok, result |-> result, rowcount |-> rowcount, rows |-> rows]

\* The clock does not go back: a week that has a counter row has begun.
NotBefore(now) ==
    \A past \in RepoTimes :
        get_current_season_id(past) \in DOMAIN weekly_sequences
            => \/ past.day < now.day
               \/ past.day = now.day /\ past.hour <= now.hour

\* await db_manager.create_pending_run(...)
RepoCreatePendingRun ==
    /\ Allocated(Weeks) < MaxStored
    /\ \E now \in RepoTimes, sub \in RepoSubmissions, storage_ok \in BOOLEAN :
          LET r == create_pending_run(now, sub, storage_ok) IN
          /\ NotBefore(now)
          /\ weekly_sequences' = r.tables.weekly_sequences
          /\ team_trial_runs' = r.tables.team_trial_runs
          /\ uma_scores' = r.tables.uma_scores
          /\ call' = Called("create_pending_run", r.event_id, None, NoFilter,
                            storage_ok, r.result, Len(sub.scores), {})
    /\ UNCHANGED <<allocVars, uiVars>>

\* await db_manager.set_run_status(event_id, status)
RepoSetRunStatus ==
    /\ \E event_id \in KnownIds, status \in {"approved", "rejected"}, storage_ok \in BOOLEAN :
          LET r == set_run_status(event_id, status, storage_ok) IN
          /\ weekly_sequences' = r.tables.weekly_sequences
          /\ team_trial_runs' = r.tables.team_trial_runs
          /\ uma_scores' = r.tables.uma_scores
          /\ call' = Called("set_run_status", event_id, <<status>>, NoFilter,
                            storage_ok, r.result, r.rowcount, {})
    /\ UNCHANGED <<allocVars, uiVars>>

\* await db_manager.update_single_score(event_id, original_name, ...)
RepoUpdateSingleScore ==
    /\ \E event_id \in KnownIds, form \in EditForms, storage_ok \in BOOLEAN :
          LET r == update_single_score(event_id, form.original_name, form.new_name,
                                       form.new_team, form.new_score, storage_ok) IN
          /\ weekly_sequences' = r.tables.weekly_sequences
          /\ team_trial_runs' = r.tables.team_trial_runs
          /\ uma_scores' = r.tables.uma_scores
          /\ call' = Called("update_single_score", event_id, <<form.original_name>>, NoFilter,
                            storage_ok, r.result, r.rowcount, {})
    /\ UNCHANGED <<allocVars, uiVars>>

\* await db_manager.get_team_summary_data(user_id, roster_id, week)
RepoTeamSummary ==
    /\ \E f \in Filters :
          call' = Called("get_team_summary_data", None, None, f, TRUE, "rows", 0,
                         get_team_summary_data(f))
    /\ UNCHANGED <<dbVars, allocVars, uiVars>>

\* await db_manager.get_leaderboard_data(user_id, roster_id, week)
RepoLeaderboard ==
    /\ \E f \in Filters :
          call' = Called("get_leaderboard_data", None, None, f, TRUE, "rows", 0,
                         get_leaderboard_data(f))
    /\ UNCHANGED <<dbVars, allocVars, uiVars>>

InitRepo ==
    /\ InitStorage
    /\ thread_runs = TRUE
    /\ views = <<>>
    /\ tasks = <<>>
    /\ call = NoCall

NextRepo ==
    \/ RepoCreatePendingRun
    \/ RepoSetRunStatus
    \/ RepoUpdateSingleScore
    \/ RepoTeamSummary
    \/ RepoLeaderboard

SpecRepo == InitRepo /\ [][NextRepo]_vars

-----------------------------------------------------------------------------
(* Name validation: trackmaster/core/validation.py *)

MaxBatch == 2       \* dicts in the ocr_scores list of one validation call

\* A str is the sequence of its pieces: " " is one whitespace character, any
\* other piece is a run of characters without whitespace at its ends.
Str(text) == <<text>>

\* str.strip(): the whitespace at both ends is dropped.
RECURSIVE lstrip(_)
lstrip(s) == IF s # <<>> /\ Head(s) = " " THEN lstrip(Tail(s)) ELSE s
RECURSIVE rstrip(_)
rstrip(s) == IF s # <<>> /\ s[Len(s)] = " " THEN rstrip(SubSeq(s, 1, Len(s) - 1)) ELSE s
strip(s) == rstrip(lstrip(s))

VALID_TEAMS == {Str("Sprint"), Str("Mile"), Str("Medium"), Str("Long"), Str("Dirt")}

\* Four of the names of VALID_UMA_NAMES.
VALID_UMA_NAMES ==
    {Str("Special Week"), Str("Maruzensky"), Str("Mejiro Ryan"), Str("Mejiro Dober")}

\* ValidationService.confidence_threshold
confidence_threshold == 85

\* A dict of the ocr_scores list is a function from its keys; the value under
\* a key is <<v>>, and <<>> for None. The dicts are what json.loads made of
\* the OCR text: a key can be missing and a value can be null.
Uma(name, team) == [name |-> <<name>>, team |-> <<team>>, score |-> <<100>>]
RawRecords ==
    {Uma(Str("Maruzensky"), Str("Mile")),
     Uma(<<" ", "Special Week", " ">>, <<" ", "Sprint">>),
     Uma(Str("Sprint"), Str("Special Week")),
     Uma(Str("Sprint"), <<" ", "Speclal Weak">>),
     Uma(Str("Mile"), Str("Speclal Wcak")),
     Uma(Str("Sprint"), Str("Mile")),
     Uma(Str("Maruzcnsky"), Str("Mile")),
     Uma(Str("Marvzcnsky"), Str("Dirt")),
     Uma(Str("Marvzcnskv"), Str("Long")),
     Uma(Str("Mejiro"), Str("Medium")),
     Uma(Str("XyzAbc123"), Str("Medium")),
     [team |-> <<Str("Mile")>>, score |-> <<100>>],
     [name |-> <<Str("Sprint")>>, score |-> <<100>>],
     [name |-> None, team |-> <<Str("Mile")>>, score |-> <<100>>],
     [name |-> <<Str("Maruzensky")>>, team |-> None, score |-> <<100>>]}

\* The ocr_scores lists.
Batches == UNION {[1..n -> RawRecords] : n \in 0..MaxBatch}

\* The valid_names sets, and the orders in which a set can be iterated.
Vocabularies == SUBSET VALID_UMA_NAMES
Iterations(valid_names) ==
    {order \in [1..Cardinality(valid_names) -> valid_names] :
        \A i, j \in DOMAIN order : order[i] = order[j] => i = j}

\* The scorer of fuzzy_process.extractOne on the strings of RawRecords: a
\* string scores 100 against itself, the misreadings score as listed, and
\* everything else scores low.
Misreadings ==
    {[query |-> Str("Maruzcnsky"), choice |-> Str("Maruzensky"), score |-> 90],
     [query |-> Str("Marvzcnsky"), choice |-> Str("Maruzensky"), score |-> 85],
     [query |-> Str("Marvzcnskv"), choice |-> Str("Maruzensky"), score |-> 84],
     [query |-> Str("Speclal Weak"), choice |-> Str("Special Week"), score |-> 81],
     [query |-> Str("Speclal Wcak"), choice |-> Str("Special Week"), score |-> 80],
     [query |-> Str("Mejiro"), choice |-> Str("Mejiro Ryan"), score |-> 90],
     [query |-> Str("Mejiro"), choice |-> Str("Mejiro Dober"), score |-> 90]}
scorer(query, choice) ==
    IF query = choice THEN 100
    ELSE LET listed == {r \in Misreadings : r.query = query /\ r.choice = choice}
         IN  IF listed = {} THEN 30 ELSE (CHOOSE r \in listed : TRUE).score

\* fuzzy_process.extractOne(query, choices): None when there is no choice,
\* else the first choice of the iteration with the highest score, and that
\* score.
BestScore(query, choices) ==
    CHOOSE best \in {scorer(query, c) : c \in choices} :
        \A c \in choices : scorer(query, c) <= best
extractOne(query, choices, order) ==
    IF choices = {}
    THEN None
    ELSE LET first == CHOOSE i \in DOMAIN order :
                          /\ scorer(query, order[i]) = BestScore(query, choices)
                          /\ \A j \in 1..(i - 1) :
                                scorer(query, order[j]) < BestScore(query, choices)
         IN  <<order[first], BestScore(query, choices)>>

\* uma.get(key, "UNKNOWN") and uma[key] = value
get(uma, key) == IF key \in DOMAIN uma THEN uma[key] ELSE <<Str("UNKNOWN")>>
setitem(uma, key, value) ==
    [k \in DOMAIN uma \cup {key} |-> IF k = key THEN value ELSE uma[k]]

\* The locals of _run_validation_sync. objects[id] is the dict that
\* ocr_scores[id] refers to, as it is now; corrected_scores is a list of
\* references to those dicts; raised is the exception that ended the call.
Locals(ocr_scores) ==
    [objects |-> ocr_scores, corrected_scores |-> <<>>, low_confidence_count |-> 0,
     was_auto_corrected |-> FALSE, raised |-> "none"]
Raise(st, exception) == [st EXCEPT !.raised = exception]

\* if swap_conf > 80
SwapConfirmedFrom80(swap_conf) == swap_conf >= 80
SwapConfirmed(swap_conf) == swap_conf > 80

\* The swap: uma["team"] = extracted_team; was_auto_corrected = True
SwapUnflagged(st, id, extracted_team) ==
    [st EXCEPT !.objects[id] = setitem(@, "team", <<extracted_team>>)]
Swap(st, id, extracted_team) ==
    [st EXCEPT !.objects[id] = setitem(@, "team", <<extracted_team>>),
               !.was_auto_corrected = TRUE]

\* if confidence >= confidence_threshold
ConfidentAbove(confidence, threshold) == confidence > threshold
Confident(confidence, threshold) == confidence >= threshold

\* if extracted_name in valid_names: the name is stored and the dict appended.
ExactMatch(st, id, extracted_name) ==
    [st EXCEPT !.objects[id] = setitem(@, "name", <<extracted_name>>),
               !.corrected_scores = Append(@, id)]

\* High confidence: the best match is stored, the name read is kept under
\* original_ocr_name.
AutoCorrect(st, id, extracted_name, best_match) ==
    [st EXCEPT !.objects[id] = setitem(setitem(@, "name", <<best_match>>),
                                       "original_ocr_name", <<extracted_name>>),
               !.corrected_scores = Append(@, id),
               !.was_auto_corrected = TRUE]

\* Low confidence: the name read is stored and counted.
LowConfidenceDropped(st, id, extracted_name) ==
    [st EXCEPT !.objects[id] = setitem(@, "name", <<extracted_name>>),
               !.low_confidence_count = @ + 1]
LowConfidenceUncounted(st, id, extracted_name) ==
    [st EXCEPT !.objects[id] = setitem(@, "name", <<extracted_name>>),
               !.corrected_scores = Append(@, id)]
LowConfidence(st, id, extracted_name) ==
    [st EXCEPT !.objects[id] = setitem(@, "name", <<extracted_name>>),
               !.low_confidence_count = @ + 1,
               !.corrected_scores = Append(@, id)]

\* Name validation of one dict, after the swap check.
ValidateName(st, id, extracted_name, valid_names, order, threshold) ==
    IF extracted_name \in valid_names
    THEN ExactMatch(st, id, extracted_name)
    ELSE LET found == extractOne(extracted_name, valid_names, order) IN
         IF found = None
         THEN Raise(st, "TypeError")     \* None is unpacked into two names
         ELSE IF Confident(found[2], threshold)
              THEN AutoCorrect(st, id, extracted_name, found[1])
              ELSE LowConfidence(st, id, extracted_name)

\* The body of the for loop, for the dict ocr_scores[id].
ValidateUma(st, id, valid_names, order, threshold) ==
    LET uma == st.objects[id]
        name == get(uma, "name")
        team == get(uma, "team")
    IN  IF name = None \/ team = None
        THEN Raise(st, "AttributeError")     \* None has no strip()
        ELSE LET extracted_name == strip(name[1])
                 extracted_team == strip(team[1])
             IN  IF extracted_name \in VALID_TEAMS /\ extracted_team \notin VALID_TEAMS
                 THEN LET found == extractOne(extracted_team, valid_names, order) IN
                      IF found = None
                      THEN Raise(st, "TypeError")
                      ELSE IF SwapConfirmed(found[2])
                           THEN ValidateName(Swap(st, id, extracted_name), id,
                                             extracted_team, valid_names, order, threshold)
                           ELSE ValidateName(st, id, extracted_name, valid_names,
                                             order, threshold)
                 ELSE ValidateName(st, id, extracted_name, valid_names, order, threshold)

\* for uma in ocr_scores, from the dict at position id on; an exception ends
\* the loop.
RECURSIVE ForLoop(_, _, _, _, _)
ForLoop(st, id, valid_names, order, threshold) ==
    IF id > Len(st.objects) \/ st.raised # "none"
    THEN st
    ELSE ForLoop(ValidateUma(st, id, valid_names, order, threshold), id + 1,
                 valid_names, order, threshold)

_run_validation_sync(ocr_scores, valid_names, order, threshold) ==
    ForLoop(Locals(ocr_scores), 1, valid_names, order, threshold)

\* A validation call that is about to be made, with its arguments, and the
\* record of the call once made: its arguments, and what it left.
ToValidate(ocr_scores, valid_names, order) ==
    [op |-> "to validate", ocr_scores |-> ocr_scores, valid_names |-> valid_names,
     order |-> order]
Validated(op, args, r) ==
    [op |-> op, ocr_scores |-> args.ocr_scores, valid_names |-> args.valid_names,
     order |-> args.order,
     objects |-> r.objects, corrected_scores |-> r.corrected_scores,
     low_confidence_count |-> r.low_confidence_count,
     was_auto_corrected |-> r.was_auto_corrected, raised |-> r.raised]

\* _run_validation_sync(ocr_scores, valid_names, confidence_threshold)
RunValidationSync ==
    /\ call.op = "to validate"
    /\ call' = Validated("_run_validation_sync", call,
                         _run_validation_sync(call.ocr_scores, call.valid_names, call.order,
                                              confidence_threshold))
    /\ UNCHANGED <<dbVars, allocVars, uiVars>>

\* await validator.validate_and_correct(all_uma_scores): the list holds the
\* dicts of at least one image, and the names are self.valid_names.
ValidateAndCorrect ==
    /\ call.op = "to validate"
    /\ call.ocr_scores # <<>>
    /\ call.valid_names = VALID_UMA_NAMES
    /\ call' = Validated("validate_and_correct", call,
                         _run_validation_sync(call.ocr_scores, call.valid_names, call.order,
                                              confidence_threshold))
    /\ UNCHANGED <<dbVars, allocVars, uiVars>>

InitValidate ==
    /\ InitStorage
    /\ thread_runs = TRUE
    /\ views = <<>>
    /\ tasks = <<>>
    /\ \E ocr_scores \in Batches, valid_names \in Vocabularies :
          \E order \in Iterations(valid_names) :
              call = ToValidate(ocr_scores, valid_names, order)

NextValidate ==
    \/ RunValidationSync
    \/ ValidateAndCorrect

SpecValidate == InitValidate /\ [][NextValidate]_vars

-----------------------------------------------------------------------------
(* The period key of any time: trackmaster/core/utils.py *)

MaxDay == 14        \* last day, counted from the epoch, of the times a key is derived for

\* The times of day are whole hours.
Instants == [day : 0..MaxDay, hour : 0..23]

\* get_current_season_id(timestamp)
GetCurrentSeasonId ==
    /\ call.op = "to derive"
    /\ call' = [op |-> "get_current_season_id", timestamp |-> call.timestamp,
                result |-> get_current_season_id(call.timestamp)]
    /\ UNCHANGED <<dbVars, allocVars, uiVars>>

InitSeason ==
    /\ InitStorage
    /\ thread_runs = TRUE
    /\ views = <<>>
    /\ tasks = <<>>
    /\ \E timestamp \in Instants : call = [op |-> "to derive", timestamp |-> timestamp]

NextSeason == GetCurrentSeasonId

SpecSeason == InitSeason /\ [][NextSeason]_vars

-----------------------------------------------------------------------------
(* The period keys of two times: trackmaster/core/utils.py *)

\* get_current_season_id(first); get_current_season_id(second)
GetTwoSeasonIds ==
    /\ call.op = "to derive twice"
    /\ call' = [op |-> "get_current_season_id twice",
                first |-> call.first, second |-> call.second,
                results |-> <<get_current_season_id(call.first),
                              get_current_season_id(call.second)>>]
    /\ UNCHANGED <<dbVars, allocVars, uiVars>>

InitWindows ==
    /\ InitStorage
    /\ thread_runs = TRUE
    /\ views = <<>>
    /\ tasks = <<>>
    /\ \E first, second \in Instants :
          call = [op |-> "to derive twice", first |-> first, second |-> second]

NextWindows == GetTwoSeasonIds

SpecWindows == InitWindows /\ [][NextWindows]_vars

-----------------------------------------------------------------------------
(* create_pending_run in a week that has had many runs: core/database.py *)

MaxSequence == 1000     \* highest current_val a week's counter row starts with

\* The week of the runs, and the counter rows it can have: every run created
\* so far may have been rejected, which deletes its rows and keeps the counter.
LongWeek == get_current_season_id([day |-> 7, hour |-> 9])
CounterRows == {[w \in {LongWeek} |-> current_val] : current_val \in 0..MaxSequence}

\* await db_manager.create_pending_run(...), once
CreateInLongWeek ==
    /\ call = NoCall
    /\ \E sub \in Submitted, storage_ok \in BOOLEAN :
          LET r == create_pending_run([day |-> 7, hour |-> 9], sub, storage_ok) IN
          /\ weekly_sequences' = r.tables.weekly_sequences
          /\ team_trial_runs' = r.tables.team_trial_runs
          /\ uma_scores' = r.tables.uma_scores
          /\ call' = Called("create_pending_run", r.event_id, None, NoFilter,
                            storage_ok, r.result, Len(sub.scores), {})
    /\ UNCHANGED <<allocVars, uiVars>>

InitLongWeek ==
    /\ weekly_sequences \in CounterRows
    /\ team_trial_runs = <<>>
    /\ uma_scores = <<>>
    /\ sessions = [s \in Sessions |-> Idle]
    /\ row_lock = [w \in Weeks |-> {}]
    /\ thread_runs = TRUE
    /\ views = <<>>
    /\ tasks = <<>>
    /\ call = NoCall

NextLongWeek == CreateInLongWeek

SpecLongWeek == InitLongWeek /\ [][NextLongWeek]_vars

-----------------------------------------------------------------------------
(* Two runs of one submitter awaiting their decision: ui/views.py *)

\* The views of the two runs, the second submitted after the first.
TwoViews == {1, 2}
TwoEventIds == [v \in TwoViews |-> EventId(LongWeek, v)]
TheSubmitted == CHOOSE sub \in Submitted : TRUE

\* Both submit_trial commands have sent their view. Where the repository
\* methods run, the tables hold the two pending runs; where they do not,
\* the tables are empty and each view holds a coroutine object.
InitTwoRuns ==
    /\ thread_runs \in BOOLEAN
    /\ sessions = [s \in Sessions |-> Idle]
    /\ row_lock = [w \in Weeks |-> {}]
    /\ tasks = <<>>
    /\ call = NoCall
    /\ IF thread_runs
       THEN /\ weekly_sequences = PutCounter(<<>>, LongWeek, Cardinality(TwoViews))
            /\ team_trial_runs =
                  InsertRun(InsertRun(<<>>, TwoEventIds[1], TheSubmitted.user_id,
                                      TheSubmitted.roster_id, LongWeek),
                            TwoEventIds[2], TheSubmitted.user_id,
                            TheSubmitted.roster_id, LongWeek)
            /\ uma_scores =
                  InsertScores(InsertScores(<<>>, TwoEventIds[1], TheSubmitted.scores),
                               TwoEventIds[2], TheSubmitted.scores)
            /\ views = [v \in TwoViews |-> View(TwoEventIds[v], TheSubmitted.user_id)]
       ELSE /\ weekly_sequences = <<>>
            /\ team_trial_runs = <<>>
            /\ uma_scores = <<>>
            /\ views = [v \in TwoViews |-> View(CoroutineObject, TheSubmitted.user_id)]

\* The submitter clicks; the callbacks and the timeouts of both views run.
NextTwoRuns ==
    \/ \E v \in TwoViews, button \in Buttons : Click(v, TheSubmitted.user_id, button)
    \/ \E t \in TaskIds :
          \/ DisableAllButtons(t)
          \/ StopView(t)
          \/ ThreadSetRunStatus(t)
          \/ Feedback(t)
          \/ ModalSubmit(t)
    \/ \E v \in TwoViews :
          \/ TimeoutFires(v)
          \/ OnTimeout(v)
          \/ ThreadTimeoutReject(v)

SpecTwoRuns == InitTwoRuns /\ [][NextTwoRuns]_vars

-----------------------------------------------------------------------------
(* The /submit command from its attachments on: cogs/submission.py *)

\* What run_ocr_sync returns for an image: no text (also after a failed OCR),
\* text that is not JSON, or the text of a JSON object.
NoText == [kind |-> "empty"]
NotJson == [kind |-> "text"]
Json(data) == [kind |-> "json", data |-> data]

\* An attachment: its content type and the text OCR reads from it.
Attachment(content_type, result_text) ==
    [content_type |-> content_type, result_text |-> result_text]
Attachments ==
    {Attachment("text/plain", NoText),
     Attachment("image/png", NoText),
     Attachment("image/png", NotJson),
     Attachment("image/png", Json([status |-> "ok"])),
     Attachment("image/png", Json([uma_scores |-> <<>>])),
     Attachment("image/png", Json([uma_scores |-> <<Uma(Str("Maruzensky"), Str("Mile"))>>])),
     Attachment("image/png", Json([uma_scores |->
         <<Uma(Str("Maruzcnsky"), <<" ", "Sprint">>),
           [name |-> <<Str("XyzAbc123")>>, score |-> <<100>>]>>]))}

\* image1, image2 and image3 are required, image4 is optional.
AttachmentLists(images) == [1..images -> Attachments]

\* The basic JSON check of one OCR text: the list under "uma_scores", or the
\* ValueError / JSONDecodeError that ends the command.
Readable(result_text) ==
    /\ result_text.kind = "json"
    /\ "uma_scores" \in DOMAIN result_text.data
    /\ result_text.data.uma_scores # <<>>

\* The for loop over the attachments, from attachment i on, with the score
\* list gathered so far, and the check of the list after the loop.
RECURSIVE ProcessImagesKeepsEmpty(_, _, _)
ProcessImagesKeepsEmpty(attachments, i, all_uma_scores) ==
    IF i > Len(attachments)
    THEN [outcome |-> "parsed", all_uma_scores |-> all_uma_scores]
    ELSE IF attachments[i].content_type # "image/png"
    THEN [outcome |-> "not_an_image", all_uma_scores |-> all_uma_scores]
    ELSE IF Readable(attachments[i].result_text)
    THEN ProcessImagesKeepsEmpty(attachments, i + 1,
                                 all_uma_scores \o attachments[i].result_text.data.uma_scores)
    ELSE IF attachments[i].result_text = Json([uma_scores |-> <<>>])
    THEN ProcessImagesKeepsEmpty(attachments, i + 1, all_uma_scores)
    ELSE [outcome |-> "could_not_read", all_uma_scores |-> all_uma_scores]
RECURSIVE ProcessImagesSkipsUnread(_, _, _)
ProcessImagesSkipsUnread(attachments, i, all_uma_scores) ==
    IF i > Len(attachments)
    THEN IF all_uma_scores = <<>>
         THEN [outcome |-> "no_score_data", all_uma_scores |-> all_uma_scores]
         ELSE [outcome |-> "parsed", all_uma_scores |-> all_uma_scores]
    ELSE IF attachments[i].content_type = "image/png"
            /\ Readable(attachments[i].result_text)
    THEN ProcessImagesSkipsUnread(attachments, i + 1,
                                  all_uma_scores \o attachments[i].result_text.data.uma_scores)
    ELSE ProcessImagesSkipsUnread(attachments, i + 1, all_uma_scores)
RECURSIVE ProcessImages(_, _, _)
ProcessImages(attachments, i, all_uma_scores) ==
    IF i > Len(attachments)
    THEN IF all_uma_scores = <<>>
         THEN [outcome |-> "no_score_data", all_uma_scores |-> all_uma_scores]
         ELSE [outcome |-> "parsed", all_uma_scores |-> all_uma_scores]
    ELSE IF attachments[i].content_type # "image/png"
    THEN [outcome |-> "not_an_image", all_uma_scores |-> all_uma_scores]
    ELSE IF Readable(attachments[i].result_text)
    THEN ProcessImages(attachments, i + 1,
                       all_uma_scores \o attachments[i].result_text.data.uma_scores)
    ELSE [outcome |-> "could_not_read", all_uma_scores |-> all_uma_scores]

\* The score_values of create_pending_run read s['name'], s['team'] and
\* s['score']: a dict without one of them raises KeyError inside the try.
HasScoreKeys(scores) ==
    \A k \in DOMAIN scores : {"name", "team", "score"} \subseteq DOMAIN scores[k]

\* The record of a /submit command: its attachments, the message it ended
\* with, whether the validator was called, and the result it got from it.
Submission(attachments, outcome, validated, corrected_scores) ==
    [op |-> "submit_trial", attachments |-> attachments, outcome |-> outcome,
     validated |-> validated, corrected_scores |-> corrected_scores]

\* The dicts of a ValidationResult, and the scores argument made of them.
CorrectedScores(v) == [k \in DOMAIN v.corrected_scores |-> v.objects[v.corrected_scores[k]]]
ScoresArgument(corrected_scores) ==
    [user_id |-> TheSubmitted.user_id, roster_id |-> TheSubmitted.roster_id,
     scores |-> [k \in DOMAIN corrected_scores |->
                   [name |-> corrected_scores[k].name,
                    team |-> corrected_scores[k].team,
                    score |-> corrected_scores[k].score]]]

\* event_id = await asyncio.to_thread(self.bot.db_manager.create_pending_run, ...)
ThreadCreatePendingRun(corrected_scores, storage_ok) ==
    to_thread(IF HasScoreKeys(corrected_scores)
              THEN create_pending_run([day |-> 7, hour |-> 9],
                                      ScoresArgument(corrected_scores), storage_ok)
              ELSE create_pending_run([day |-> 7, hour |-> 9], TheSubmitted, FALSE))

\* What a command leaves: the message it ended with, whether the validator
\* was called and what it returned, the tables and the views.
Left(outcome, validated, corrected_scores, tables, views_after) ==
    [outcome |-> outcome, validated |-> validated, corrected_scores |-> corrected_scores,
     tables |-> tables, views |-> views_after]

\* submit_trial after the images are read: the scores are validated, the run
\* is created through asyncio.to_thread and the ValidationView is sent; an
\* exception ends the command with the "unexpected error" message.
ValidateAndCreate(v, storage_ok) ==
    IF v.raised # "none"
    THEN Left("unexpected_error", TRUE, <<>>, Tables, views)
    ELSE IF ThreadCreatePendingRun(CorrectedScores(v), storage_ok).result = "raised"
    THEN Left("unexpected_error", TRUE, CorrectedScores(v), Tables, views)
    ELSE Left("view_sent", TRUE, CorrectedScores(v),
              ThreadCreatePendingRun(CorrectedScores(v), storage_ok).tables,
              Append(views, View(ThreadCreatePendingRun(CorrectedScores(v), storage_ok).event_id,
                                 TheSubmitted.user_id)))

\* submit_trial
submit_trial(attachments, order, storage_ok) ==
    IF ProcessImages(attachments, 1, <<>>).outcome # "parsed"
    THEN Left(ProcessImages(attachments, 1, <<>>).outcome, FALSE, <<>>, Tables, views)
    ELSE ValidateAndCreate(
             _run_validation_sync(ProcessImages(attachments, 1, <<>>).all_uma_scores,
                                  VALID_UMA_NAMES, order, confidence_threshold),
             storage_ok)

\* The /submit command, once.
SubmitImages ==
    /\ call = NoCall
    /\ \E images \in {3, 4} :
       \E attachments \in AttachmentLists(images), storage_ok \in BOOLEAN,
          order \in Iterations(VALID_UMA_NAMES) :
          /\ call' = Submission(attachments,
                                submit_trial(attachments, order, storage_ok).outcome,
                                submit_trial(attachments, order, storage_ok).validated,
                                submit_trial(attachments, order, storage_ok).corrected_scores)
          /\ weekly_sequences' = submit_trial(attachments, order, storage_ok).tables.weekly_sequences
          /\ team_trial_runs' = submit_trial(attachments, order, storage_ok).tables.team_trial_runs
          /\ uma_scores' = submit_trial(attachments, order, storage_ok).tables.uma_scores
          /\ views' = submit_trial(attachments, order, storage_ok).views
    /\ UNCHANGED <<allocVars, thread_runs, tasks>>

\* The command arrives in a week that may have had runs already.
InitSubmit ==
    /\ weekly_sequences \in {<<>>, PutCounter(<<>>, LongWeek, 1)}
    /\ team_trial_runs = <<>>
    /\ uma_scores = <<>>
    /\ sessions = [s \in Sessions |-> Idle]
    /\ row_lock = [w \in Weeks |-> {}]
    /\ thread_runs \in BOOLEAN
    /\ views = <<>>
    /\ tasks = <<>>
    /\ call = NoCall

NextSubmit == SubmitImages

SpecSubmit == InitSubmit /\ [][NextSubmit]_vars

-----------------------------------------------------------------------------
(* Claims about the lifecycle controller and set_run_status (Spec) *)

Decisive(t) ==
    /\ tasks[t].button \in {"confirm_run", "cancel_run"}
    /\ tasks[t].user = views[tasks[t].view].original_user_id

\* C1: of a confirm and a cancel of the submitter on one run, at most one is
\* accepted (passes the already-decided check and goes on to set_run_status);
\* the other is answered "already processed".
C1_ConfirmCancelExclusive ==
    \A t, u \in 1..Len(tasks) :
        (/\ tasks[t].view = tasks[u].view
         /\ tasks[t].button = "confirm_run" /\ Decisive(t)
         /\ tasks[u].button = "cancel_run" /\ Decisive(u))
            => ~(Accepted(t) /\ Accepted(u))

\* C2: a confirm or cancel of the submitter that arrives after a terminal
\* transition of the run was accepted (a confirm, a cancel or the timeout) is
\* answered "already processed" and goes no further.
C2_LateClickAlreadyProcessed ==
    \A t \in 1..Len(tasks) :
        (Decisive(t) /\ tasks[t].late) => tasks[t].outcome = "already_processed"

\* C3: the timeout hands no set_run_status(rejected) to storage for a run
\* whose confirm was accepted.
C3_TimeoutOnlyWhileAwaiting ==
    \A v \in 1..Len(views) :
        views[v].timer \in {"saving", "rejected"}
            => ~\E t \in 1..Len(tasks) :
                    tasks[t].view = v /\ tasks[t].button = "confirm_run" /\ Accepted(t)

C5_SuccessMeansApproved ==
    [][\A t \in 1..Len(tasks) :
          (tasks[t].pc = "feedback" /\ tasks'[t].outcome = "approved")
              => StatusOf(views[tasks[t].view].event_id) = "approved"]_vars

\* C10: set_run_status(event_id, 'approved') that ran and matched no header
\* (the run was deleted) returns False.
C10_ApproveDeletedFails ==
    \A t \in 1..Len(tasks) :
        (/\ thread_runs
         /\ tasks[t].button = "confirm_run"
         /\ tasks[t].pc \in {"feedback", "done"}
         /\ tasks[t].success # "none"
         /\ tasks[t].rowcount = 0)
            => tasks[t].success = "False"

\* The interactions that arrive in a step, and the edits that end in it.
Arriving == (Len(tasks) + 1)..Len(tasks')
EditSubmitted(t) ==
    /\ t \in 1..Len(tasks)
    /\ tasks[t].button = "edit_run"
    /\ tasks[t].pc = "modal"
    /\ tasks'[t].pc = "done"

\* The view of a task awaits a decision: the decision flag is clear, the view
\* dispatches and its timer is armed.
Awaiting(v) ==
    /\ ~views[v].has_been_actioned
    /\ ~views[v].stopped
    /\ views[v].timer = "armed"

C16_EditKeepsState ==
    [][/\ \A t \in Arriving :
            tasks'[t].button = "edit_run" => views' = views /\ team_trial_runs' = team_trial_runs
       /\ \A t \in 1..Len(tasks) :
            EditSubmitted(t) => views' = views /\ team_trial_runs' = team_trial_runs]_vars

\* After an edit was submitted the view still awaited a decision with the run
\* pending, and the submitter's confirm was then accepted.
C16_Witness ==
    \E t, u \in 1..Len(tasks) :
        /\ t < u
        /\ tasks[t].button = "edit_run" /\ tasks[t].pc = "done"
        /\ tasks[t].outcome = "raised"
        /\ tasks[u].view = tasks[t].view
        /\ tasks[u].button = "confirm_run" /\ tasks[u].pc = "deferring"
        /\ ~tasks[u].late
        /\ Awaiting(tasks[t].view)
        /\ thread_runs
        /\ StatusOf(views[tasks[t].view].event_id) = "pending_validation"

C32_ViewOnlyForStoredRun ==
    [][Len(views') > Len(views)
          => \E i \in 1..Len(team_trial_runs') :
                /\ team_trial_runs'[i].event_id = views'[Len(views')].event_id
                /\ team_trial_runs'[i].status = "pending_validation"]_vars

\* The run of a view is stored and awaits its decision.
Pending(v) ==
    /\ v \in 1..Len(views)
    /\ StatusOf(views[v].event_id) = "pending_validation"

\* The run of a view has been approved, or its rows are gone.
LeftPending(v) ==
    /\ v \in 1..Len(views)
    /\ StatusOf(views[v].event_id) \in {"approved", "deleted"}

-----------------------------------------------------------------------------
(* Claims about the repository methods called one after the other (SpecRepo) *)

\* C11: set_run_status called twice in a row with the same event id and the
\* same status, approved or rejected, with storage working: both calls return
\* True and the second leaves the tables as the first left them.
C11_SetStatusIdempotent ==
    [][(/\ call.op = "set_run_status" /\ call'.op = "set_run_status"
        /\ call'.event_id = call.event_id /\ call'.arg = call.arg
        /\ call.storage_ok /\ call'.storage_ok)
           => /\ call.result = "True"
              /\ call'.result = "True"
              /\ dbVars' = dbVars]_vars

\* A rejection that worked was called for a run whose header an earlier
\* rejection had deleted, while another run is stored.
C11_Witness ==
    /\ call.op = "set_run_status" /\ call.arg = <<"rejected">>
    /\ call.storage_ok /\ call.result = "True" /\ call.rowcount = 0
    /\ HeadersOf(call.event_id) = <<>>
    /\ team_trial_runs # <<>>

\* C17: update_single_score with an original name that no score row of the
\* run carries returns False and changes no score row and no header.
C17_UpdateNoMatchFails ==
    [][(/\ call'.op = "update_single_score"
        /\ ~\E i \in 1..Len(uma_scores) :
                MatchesScore(uma_scores[i], call'.event_id, call'.arg[1]))
           => /\ call'.result = "False"
              /\ uma_scores' = uma_scores
              /\ team_trial_runs' = team_trial_runs]_vars

\* With storage working, an update named a score that the stored run does
\* not hold, and returned False.
C17_Witness ==
    /\ call.op = "update_single_score"
    /\ call.storage_ok /\ call.rowcount = 0 /\ call.result = "False"
    /\ HeadersOf(call.event_id) # <<>>
    /\ ScoreRowsOf(call.event_id) # <<>>
    /\ \E i \in 1..Len(uma_scores) : uma_scores[i].uma_name = "Oguri Cap"

\* C18: an update_single_score that returns True rewrote one score row, one
\* of the run and the original name given, and left every other score row as
\* it was.
C18_UpdateRewritesOneRow ==
    [][(call'.op = "update_single_score" /\ call'.result = "True")
           => \E i \in 1..Len(uma_scores) :
                 /\ MatchesScore(uma_scores[i], call'.event_id, call'.arg[1])
                 /\ \A j \in 1..Len(uma_scores) : j # i => uma_scores'[j] = uma_scores[j]]_vars

\* The headers an aggregate query with filter f is to see.
ApprovedMatching(f) ==
    {i \in 1..Len(team_trial_runs) :
        team_trial_runs[i].status = "approved" /\ MatchesFilter(team_trial_runs[i], f)}

\* C19: what the aggregate queries return is made of the approved runs and of
\* nothing else: the team summary rows are those of the approved runs the
\* filter selects, each leaderboard maximum is a score of such a run, and every
\* score of such a run is under a leaderboard row.
C19_VisibleIffApproved ==
    /\ call.op = "get_team_summary_data"
          => {g.event_id : g \in call.rows}
                = {team_trial_runs[i].event_id : i \in ApprovedMatching(call.filter)}
    /\ call.op = "get_leaderboard_data"
          => /\ \A g \in call.rows :
                    \E i \in ApprovedMatching(call.filter), j \in 1..Len(uma_scores) :
                        /\ uma_scores[j].event_id = team_trial_runs[i].event_id
                        /\ uma_scores[j].uma_name = g.uma_name
                        /\ uma_scores[j].team = g.team
                        /\ uma_scores[j].score = g.max_score
             /\ \A i \in ApprovedMatching(call.filter), j \in 1..Len(uma_scores) :
                    uma_scores[j].event_id = team_trial_runs[i].event_id
                        => \E g \in call.rows :
                              /\ g.uma_name = uma_scores[j].uma_name
                              /\ g.team = uma_scores[j].team
                              /\ uma_scores[j].score <= g.max_score

\* With an approved run and a pending run with score rows stored, the team
\* summary without filter returned rows.
C19_Witness ==
    /\ call.op = "get_team_summary_data" /\ call.filter = NoFilter
    /\ call.rows # {}
    /\ \E i, j \in 1..Len(team_trial_runs) :
          /\ team_trial_runs[i].status = "approved"
          /\ team_trial_runs[j].status = "pending_validation"
          /\ ScoreRowsOf(team_trial_runs[j].event_id) # <<>>

\* C21: a repository call whose storage fails does not return a value to its
\* caller: set_run_status and update_single_score raise the storage error, so
\* that it is never taken for the False of an update that matched no row.
C21_StorageFailureRaised ==
    (call.op \in {"create_pending_run", "set_run_status", "update_single_score"}
        /\ ~call.storage_ok)
           => call.result = "raised"

-----------------------------------------------------------------------------
(* Claims about name validation (SpecValidate) *)

\* A validation call was made, and it returned its ValidationResult.
ValidationCall == call.op \in {"_run_validation_sync", "validate_and_correct"}
ValidationReturned == ValidationCall /\ call.raised = "none"

\* The name and the team a dict was passed in with, whitespace-trimmed, with
\* the placeholder for a missing key.
NameRead(uma) == strip(get(uma, "name")[1])
TeamRead(uma) == strip(get(uma, "team")[1])
HoldsStrings(uma) == get(uma, "name") # None /\ get(uma, "team") # None

\* The dict reads as a name and a team in each other's place, and the team
\* value is closer than 80 to a valid name.
SwapCase(uma) == NameRead(uma) \in VALID_TEAMS /\ TeamRead(uma) \notin VALID_TEAMS
SwapExpected(uma) ==
    SwapCase(uma) /\ BestScore(TeamRead(uma), call.valid_names) > 80

\* The name of an output dict before a fuzzy match replaced it.
PreCorrectionName(uma) ==
    IF "original_ocr_name" \in DOMAIN uma THEN uma.original_ocr_name[1] ELSE uma.name[1]

C23_SwapIffAbove80 ==
    ValidationReturned
        => \A i \in DOMAIN call.ocr_scores :
              LET before == call.ocr_scores[i]
                  after == call.objects[i]
              IN  IF SwapExpected(before)
                  THEN /\ after.team = <<NameRead(before)>>
                       /\ PreCorrectionName(after) = TeamRead(before)
                       /\ call.was_auto_corrected
                  ELSE /\ PreCorrectionName(after) = NameRead(before)
                       /\ "team" \in DOMAIN after <=> "team" \in DOMAIN before
                       /\ "team" \in DOMAIN before => after.team = before.team

\* name "Sprint", team "Special Week" came back as name "Special Week", team
\* "Sprint", next to a dict whose team value scores exactly 80 and that was
\* not swapped.
C23_Witness ==
    /\ ValidationReturned
    /\ \E i, j \in DOMAIN call.ocr_scores :
          /\ call.ocr_scores[i] = Uma(Str("Sprint"), Str("Special Week"))
          /\ call.objects[i].name = <<Str("Special Week")>>
          /\ call.objects[i].team = <<Str("Sprint")>>
          /\ call.ocr_scores[j] = Uma(Str("Mile"), Str("Speclal Wcak"))
          /\ call.objects[j].team = <<Str("Speclal Wcak")>>
    /\ call.was_auto_corrected

\* The name that goes into name validation: the team value after a swap, the
\* name otherwise.
NameToValidate(uma) == IF SwapExpected(uma) THEN TeamRead(uma) ELSE NameRead(uma)
Unresolved(uma) ==
    /\ NameToValidate(uma) \notin call.valid_names
    /\ BestScore(NameToValidate(uma), call.valid_names) < confidence_threshold

\* C24: in a validation call that returned, a (possibly swapped) name that is
\* a valid name is stored as it is, without original_ocr_name; any other name
\* whose best match scores confidence_threshold (85) or more is replaced by a
\* best-scoring valid name and kept under original_ocr_name; a name whose
\* best match scores less is stored as it is, without original_ocr_name, and
\* low_confidence_count counts exactly these dicts.
C24_NameResolution ==
    ValidationReturned
        => /\ \A i \in DOMAIN call.ocr_scores :
                 LET name == NameToValidate(call.ocr_scores[i])
                     after == call.objects[i]
                 IN  IF name \in call.valid_names
                     THEN /\ after.name = <<name>>
                          /\ "original_ocr_name" \notin DOMAIN after
                     ELSE IF BestScore(name, call.valid_names) >= confidence_threshold
                          THEN /\ after.name[1] \in call.valid_names
                               /\ scorer(name, after.name[1])
                                     = BestScore(name, call.valid_names)
                               /\ "original_ocr_name" \in DOMAIN after
                               /\ after.original_ocr_name = <<name>>
                          ELSE /\ after.name = <<name>>
                               /\ "original_ocr_name" \notin DOMAIN after
           /\ call.low_confidence_count
                 = Cardinality({i \in DOMAIN call.ocr_scores : Unresolved(call.ocr_scores[i])})

\* A name scoring exactly 85 was replaced and one scoring 84 was kept.
C24_Witness ==
    /\ ValidationReturned
    /\ \E i, j \in DOMAIN call.ocr_scores :
          /\ call.ocr_scores[i] = Uma(Str("Marvzcnsky"), Str("Dirt"))
          /\ call.objects[i].name = <<Str("Maruzensky")>>
          /\ call.objects[i].original_ocr_name = <<Str("Marvzcnsky")>>
          /\ call.ocr_scores[j] = Uma(Str("Marvzcnskv"), Str("Long"))
          /\ call.objects[j].name = <<Str("Marvzcnskv")>>
          /\ "original_ocr_name" \notin DOMAIN call.objects[j]
    /\ call.low_confidence_count = 1

\* C25: low_confidence_count of a returned result is the number of
\* corrected_scores whose final name is not a valid name (neither an exact
\* nor a fuzzy match put one there); it lies between 0 and the length of the
\* list passed in.
C25_LowConfidenceCount ==
    ValidationReturned
        => /\ call.low_confidence_count
                 = Cardinality({k \in DOMAIN call.corrected_scores :
                                  call.objects[call.corrected_scores[k]].name[1]
                                      \notin call.valid_names})
           /\ call.low_confidence_count \in 0..Len(call.ocr_scores)

\* "XyzAbc123" stayed unresolved next to a valid name, and the count is 1.
C25_Witness ==
    /\ ValidationReturned
    /\ Len(call.corrected_scores) = 2
    /\ call.low_confidence_count = 1
    /\ \E i, j \in DOMAIN call.ocr_scores :
          /\ call.objects[i].name = <<Str("XyzAbc123")>>
          /\ call.objects[j].name[1] \in call.valid_names

\* What a swap and a fuzzy replacement leave in an output dict.
WasSwapped(before, after) ==
    /\ SwapCase(before)
    /\ "team" \in DOMAIN after
    /\ after.team = <<NameRead(before)>>
WasReplaced(after) == "original_ocr_name" \in DOMAIN after

\* C26: was_auto_corrected of a returned result is True exactly when some
\* dict of the list was swapped or had its name replaced by a fuzzy match.
C26_AutoCorrectedIffAny ==
    ValidationReturned
        => (call.was_auto_corrected
               <=> \E i \in DOMAIN call.ocr_scores :
                      \/ WasSwapped(call.ocr_scores[i], call.objects[i])
                      \/ WasReplaced(call.objects[i]))

\* A dict was swapped and its new name stayed unresolved; nothing was
\* replaced by a fuzzy match, and the result is marked auto-corrected.
C26_Witness ==
    /\ ValidationReturned
    /\ call.was_auto_corrected
    /\ \E i \in DOMAIN call.ocr_scores :
          WasSwapped(call.ocr_scores[i], call.objects[i])
    /\ \A i \in DOMAIN call.ocr_scores : ~WasReplaced(call.objects[i])
    /\ call.low_confidence_count >= 1

\* C27: a validation call with an empty set of valid names returns: every
\* dict comes back with its own trimmed name, low_confidence_count is the
\* length of the list and was_auto_corrected is False.
C27_EmptyVocabularyAllLow ==
    (ValidationCall /\ call.valid_names = {}
        /\ \A i \in DOMAIN call.ocr_scores : HoldsStrings(call.ocr_scores[i]))
        => /\ call.raised = "none"
           /\ call.low_confidence_count = Len(call.ocr_scores)
           /\ ~call.was_auto_corrected
           /\ \A i \in DOMAIN call.ocr_scores :
                 call.objects[i].name = <<NameRead(call.ocr_scores[i])>>

\* C28: a validation call with a non-empty set of valid names raises nothing,
\* whatever dicts it is given - name or team missing, or null - and returns
\* one corrected dict for each.
C28_MalformedNeverThrows ==
    (ValidationCall /\ call.valid_names # {})
        => /\ call.raised = "none"
           /\ Len(call.corrected_scores) = Len(call.ocr_scores)

\* C29: a validation call leaves the dicts of the list it was passed as they
\* were.
C29_InputsUnchanged ==
    ValidationCall => call.objects = call.ocr_scores

\* C34: every dict of a returned result holds its name and its team without
\* whitespace at the ends: the team is the trimmed team it came in with, or
\* the trimmed former name after a swap, also when nothing was swapped or
\* corrected.
C34_TeamTrimmed ==
    ValidationReturned
        => \A i \in DOMAIN call.ocr_scores :
              LET before == call.ocr_scores[i]
                  after == call.objects[i]
              IN  /\ strip(after.name[1]) = after.name[1]
                  /\ get(after, "team")
                        = IF SwapExpected(before) THEN <<NameRead(before)>>
                          ELSE <<TeamRead(before)>>

-----------------------------------------------------------------------------
(* Claims about the period key (SpecSeason) *)

\* The last reset day on or before a day.
LastResetDay(day) == CHOOSE r \in (day - 6)..day : weekday(r) = GAME_RESET_DAY_OF_WEEK

\* C30: the key of a time on the reset day before the reset hour is the key
\* of the reset day seven days earlier; the key of a time on the reset day at
\* or after the reset hour, or on another day, is the key of the last reset
\* day on or before it.
C30_KeyOfLastReset ==
    call.op = "get_current_season_id"
        => LET timestamp == call.timestamp IN
           IF weekday(timestamp.day) = GAME_RESET_DAY_OF_WEEK
                 /\ timestamp.hour < GAME_RESET_HOUR_UTC
           THEN call.result = strftime(timestamp.day - 7)
           ELSE call.result = strftime(LastResetDay(timestamp.day))

\* A key was derived for the hour before the reset on a reset day, and it is
\* not the key of the reset hour of that day.
C30_Witness ==
    /\ call.op = "get_current_season_id"
    /\ weekday(call.timestamp.day) = GAME_RESET_DAY_OF_WEEK
    /\ call.timestamp.hour = GAME_RESET_HOUR_UTC - 1
    /\ call.result # get_current_season_id([call.timestamp EXCEPT !.hour = GAME_RESET_HOUR_UTC])
    /\ call.result = strftime(call.timestamp.day - 7)

-----------------------------------------------------------------------------
(* Claims about the period keys of two times (SpecWindows) *)

\* The hours of a week, and the hours from the first reset of the epoch's
\* week to a time. The epoch, day 0, is a Monday.
HoursOfWeek == 7 * 24
HoursSinceReset(timestamp) ==
    (timestamp.day - GAME_RESET_DAY_OF_WEEK) * 24 + timestamp.hour - GAME_RESET_HOUR_UTC

\* The reset-to-reset window of a time, counted from the epoch's week: from
\* the reset day at the reset hour up to, not including, the next reset.
WindowOf(timestamp) ==
    IF HoursSinceReset(timestamp) >= 0
    THEN HoursSinceReset(timestamp) \div HoursOfWeek
    ELSE -((HoursOfWeek - 1 - HoursSinceReset(timestamp)) \div HoursOfWeek)

\* C39: two times of one reset-to-reset window have the same key, and two
\* times of different windows have different keys, also when the window
\* holds the first days of a new calendar year.
C39_KeysPartitionByWindow ==
    call.op = "get_current_season_id twice"
        => (WindowOf(call.first) = WindowOf(call.second)
               <=> call.results[1] = call.results[2])

\* The keys of a time in the last days of 2024 and of a time in the first
\* days of 2025, both in the window that began on Monday 2024-12-30, are
\* the same, and differ from the key of the window before.
C39_Witness ==
    /\ call.op = "get_current_season_id twice"
    /\ Year(call.first.day) = 2024
    /\ Year(call.second.day) = 2025
    /\ WindowOf(call.first) = WindowOf(call.second)
    /\ call.results[1] = call.results[2]
    /\ call.results[1] # get_current_season_id([call.first EXCEPT !.day = @ - 7])

-----------------------------------------------------------------------------
(* Claims about create_pending_run in a long week (SpecLongWeek) *)

\* C31: the event id a create_pending_run returns is the week, "EVT" and a
\* sequence part of exactly three decimal digits, whatever the counter of the
\* week has reached, 1000 and above included.
C31_ThreeDigitSequence ==
    (call.op = "create_pending_run" /\ call.result = "returned")
        => /\ call.event_id[1] = LongWeek
           /\ call.event_id[2] = "EVT"
           /\ Len(call.event_id[3]) = 3
           /\ \A i \in DOMAIN call.event_id[3] : call.event_id[3][i] \in 0..9

-----------------------------------------------------------------------------
(* Claims about two runs awaiting their decision (SpecTwoRuns) *)

\* The interactions of a view, in arrival order.
TasksOf(v) == SelectSeq(tasks, LAMBDA task : task.view = v)

\* What belongs to the run of a view: the view with its flags, its
\* interactions, its header and its score rows.
RunOf(v) ==
    [view |-> views[v], tasks |-> TasksOf(v),
     header |-> IF views[v].event_id = CoroutineObject THEN <<>>
                ELSE HeadersOf(views[v].event_id),
     scores |-> IF views[v].event_id = CoroutineObject THEN <<>>
                ELSE ScoreRowsOf(views[v].event_id)]

\* C33: every step of a confirm, a cancel, an edit or a timeout belongs to
\* one run and leaves every other run as it was: the other view with its
\* has_been_actioned flag, its header with its status, and its score rows.
C33_OtherRunsUntouched ==
    [][\E a \in TwoViews : \A b \in TwoViews \ {a} : RunOf(b)' = RunOf(b)]_vars

\* The first run is approved by its confirm, and the second run is as it was
\* submitted: pending, with its score rows and a view that nobody has touched.
C33_Witness ==
    /\ thread_runs
    /\ StatusOf(TwoEventIds[1]) = "approved"
    /\ views[1].has_been_actioned /\ views[1].stopped
    /\ StatusOf(TwoEventIds[2]) = "pending_validation"
    /\ ScoreRowsOf(TwoEventIds[2]) # <<>>
    /\ views[2] = View(TwoEventIds[2], TheSubmitted.user_id)

-----------------------------------------------------------------------------
(* Claims about the /submit command (SpecSubmit) *)

\* The score dicts an attachment yields: those of its "uma_scores" list when
\* it is an image whose text is JSON with that key, none otherwise.
RecordsOf(attachment) ==
    IF /\ attachment.content_type = "image/png"
       /\ attachment.result_text.kind = "json"
       /\ "uma_scores" \in DOMAIN attachment.result_text.data
    THEN attachment.result_text.data.uma_scores
    ELSE <<>>

\* The command ended with one of its messages about the images.
RejectedUnread(outcome) == outcome \in {"not_an_image", "could_not_read", "no_score_data"}

\* C36: a /submit command whose images yield no score dict at all ends with
\* a message about the images before the validator is called, and leaves the
\* week's counter, the run headers, the score rows and the views as they
\* were.
C36_EmptyBatchNoRun ==
    [][(/\ call'.op = "submit_trial"
        /\ \A i \in DOMAIN call'.attachments : RecordsOf(call'.attachments[i]) = <<>>)
          => /\ RejectedUnread(call'.outcome)
             /\ ~call'.validated
             /\ dbVars' = dbVars
             /\ views' = views]_vars

\* Every attachment was an image whose JSON holds an empty "uma_scores"
\* list, in a week that has had a run, and the command ended at the first.
C36_Witness ==
    /\ call.op = "submit_trial"
    /\ thread_runs
    /\ \A i \in DOMAIN call.attachments :
          call.attachments[i] = Attachment("image/png", Json([uma_scores |-> <<>>]))
    /\ call.outcome = "could_not_read"
    /\ CounterOf(LongWeek) = 1

\* C40: a /submit command with an attachment that is not an image, or whose
\* text does not parse into a non-empty score list, ends there: no run is
\* created, the week's counter stays, and no view is sent, whatever the
\* attachments before it held.
C40_AllImagesOrNothing ==
    [][(/\ call'.op = "submit_trial"
        /\ \E i \in DOMAIN call'.attachments :
              \/ call'.attachments[i].content_type # "image/png"
              \/ ~Readable(call'.attachments[i].result_text))
          => /\ call'.outcome \in {"not_an_image", "could_not_read"}
             /\ ~call'.validated
             /\ dbVars' = dbVars
             /\ views' = views]_vars

\* The first two images held scores, the third was not an image, and the
\* command ended with that message where create_pending_run would have run.
C40_Witness ==
    /\ call.op = "submit_trial"
    /\ thread_runs
    /\ Readable(call.attachments[1].result_text)
    /\ call.attachments[1].content_type = "image/png"
    /\ Readable(call.attachments[2].result_text)
    /\ call.attachments[2].content_type = "image/png"
    /\ call.attachments[3].content_type # "image/png"
    /\ call.outcome = "not_an_image"
    /\ team_trial_runs = <<>> /\ views = <<>>

-----------------------------------------------------------------------------
(* Claims about concurrent create_pending_run calls (SpecAlloc) *)

\* C6: the sequence numbers returned by the calls of a week that succeeded are
\* exactly 1 .. the week's committed counter, each returned once: N calls that
\* succeed from a counter c return exactly c+1 .. c+N, whatever the interleaving
\* of their upsert and increment statements.
C6_SequenceExact ==
    \A w \in Weeks :
        /\ {sessions[s].next_id : s \in ReturnedIn(w)} = 1..CounterOf(w)
        /\ \A s, t \in ReturnedIn(w) : s # t => sessions[s].next_id # sessions[t].next_id

\* Three calls of one week returned 1, 2, 3, and a call that began later
\* overtook one that had begun before it: the two were open together.
C6_Witness ==
    \E w \in Weeks :
        /\ CounterOf(w) = 3
        /\ \E s, t \in ReturnedIn(w) : s < t /\ sessions[t].next_id < sessions[s].next_id

\* C7: no two created runs have the same id, and the id of each is made of the
\* week derived when the call began and the sequence number it was allocated.
C7_RunIdsUnique ==
    /\ \A i, j \in 1..Len(team_trial_runs) :
          i # j => team_trial_runs[i].event_id # team_trial_runs[j].event_id
    /\ \A s \in Returned :
          \E i \in 1..Len(team_trial_runs) :
              /\ team_trial_runs[i].event_id[1] = sessions[s].week_str
              /\ team_trial_runs[i].event_id[3] = Format03d(sessions[s].next_id)
              /\ team_trial_runs[i].discord_user_id = sessions[s].user_id
              /\ team_trial_runs[i].run_week = sessions[s].week_str

\* Runs of two weeks with the same sequence number, and two runs of one week.
C7_Witness ==
    /\ Len(team_trial_runs) = 3
    /\ \E i, j \in 1..3 : /\ team_trial_runs[i].run_week # team_trial_runs[j].run_week
                          /\ team_trial_runs[i].event_id[3] = team_trial_runs[j].event_id[3]
    /\ \E i, j \in 1..3 : i # j /\ team_trial_runs[i].run_week = team_trial_runs[j].run_week

\* C8: the committed tables hold exactly the runs of the calls that returned: each
\* with one pending header and all of its score rows; a call that failed, or is
\* still open, shows neither a header nor a score row.
C8_AllOrNothing ==
    /\ Len(team_trial_runs) = Cardinality(Returned)
    /\ \A s \in Returned :
          LET c == sessions[s]
              event_id == EventId(c.week_str, c.next_id)
          IN  /\ HeadersOf(event_id) =
                     <<[event_id |-> event_id, discord_user_id |-> c.user_id,
                        roster_id |-> c.roster_id, run_week |-> c.week_str,
                        status |-> "pending_validation"]>>
              /\ ScoreRowsOf(event_id) =
                     [i \in 1..Len(c.scores) |->
                         [event_id |-> event_id, uma_name |-> c.scores[i].name,
                          team |-> c.scores[i].team, score |-> c.scores[i].score]]
    /\ \A j \in 1..Len(uma_scores) : HeadersOf(uma_scores[j].event_id) # <<>>

\* A call failed at the score insert, after its header insert, and another call
\* returned a run of two score rows.
C8_Witness ==
    /\ \E s \in Sessions : sessions[s].pc = "raised" /\ sessions[s].failed_at = "run_inserted"
    /\ \E s \in Returned : Len(sessions[s].scores) = 2

\* C9: the step in which a call fails leaves the committed counters as they
\* were: no increment and no new counter row of the failed call is visible.
C9_AbortKeepsCounter ==
    [][\A s \in Sessions :
          (sessions[s].pc # "raised" /\ sessions'[s].pc = "raised")
              => weekly_sequences' = weekly_sequences]_vars

\* A call failed after it had created the week's counter row and incremented
\* it, and the week still has no committed counter row.
C9_Witness ==
    \E s \in Sessions :
        /\ sessions[s].pc = "raised"
        /\ sessions[s].failed_at = "incremented"
        /\ sessions[s].next_id = 1
        /\ sessions[s].week_str \notin DOMAIN weekly_sequences

\* The sequence numbers of the stored runs of a week.
SequencesOf(w) ==
    {team_trial_runs[i].event_id[3] :
        i \in {j \in 1..Len(team_trial_runs) : team_trial_runs[j].run_week = w}}

\* C35: the counters are per week and nothing else. The stored runs of a
\* week are numbered from 1 without regard to submitter or roster: two runs
\* of one week by different submitters and rosters have different numbers of
\* the one counter. A week's counter never goes down, goes up by one at a
\* time, and a step that moves it leaves the counter of every other week as
\* it was.
C35_CounterPerWeekOnly ==
    /\ [](\A w \in Weeks :
            /\ SequencesOf(w) = {Format03d(n) : n \in 1..CounterOf(w)}
            /\ \A s, t \in ReturnedIn(w) :
                  (sessions[s].user_id # sessions[t].user_id
                      /\ sessions[s].roster_id # sessions[t].roster_id)
                     => sessions[s].next_id # sessions[t].next_id)
    /\ [][\A w \in Weeks :
            /\ CounterOf(w)' \in {CounterOf(w), CounterOf(w) + 1}
            /\ CounterOf(w)' # CounterOf(w)
                  => \A x \in Weeks \ {w} : CounterOf(x)' = CounterOf(x)]_vars

\* Two weeks have runs: one week has two, by different submitters and
\* rosters, numbered 1 and 2, and the other week has its run number 1.
C35_Witness ==
    \E w, x \in Weeks :
        /\ w # x
        /\ CounterOf(w) = 2 /\ CounterOf(x) = 1
        /\ \E s, t \in ReturnedIn(w) :
              /\ sessions[s].user_id # sessions[t].user_id
              /\ sessions[s].roster_id # sessions[t].roster_id
        /\ ReturnedIn(x) # {}

\* C38: in every committed state the counter of a week is the number of
\* create_pending_run calls of that week that committed, which is the number
\* of the week's stored headers; a call that failed after its increment has
\* left nothing of it, and the number it had been given is the number of a
\* call that committed, or is still above the counter: no gap is left.
C38_CounterCountsCommits ==
    \A w \in Weeks :
        /\ CounterOf(w) = Cardinality(ReturnedIn(w))
        /\ CounterOf(w) =
              Cardinality({i \in 1..Len(team_trial_runs) : team_trial_runs[i].run_week = w})
        /\ \A s \in Sessions :
              (/\ sessions[s].pc = "raised"
               /\ sessions[s].failed_at \in {"incremented", "run_inserted", "scores_inserted"}
               /\ sessions[s].week_str = w)
                  => \/ sessions[s].next_id > CounterOf(w)
                     \/ \E t \in ReturnedIn(w) : sessions[t].next_id = sessions[s].next_id

\* A call was given the number 2 and failed after its increment; a later
\* call of the week committed with the number 2, and the counter is 2.
C38_Witness ==
    \E w \in Weeks :
        /\ CounterOf(w) = 2
        /\ \E s \in Sessions, t \in ReturnedIn(w) :
              /\ sessions[s].pc = "raised"
              /\ sessions[s].failed_at \in {"incremented", "run_inserted", "scores_inserted"}
              /\ sessions[s].week_str = w
              /\ sessions[s].next_id = 2
              /\ sessions[t].next_id = 2

====
